---- MODULE Spec2Model ----
(***************************************************************************)
(* Weather acquisition of GridPilot X: the provider chain of               *)
(* services/geminiService.ts (fetchHourlyWeather, its two live adapters    *)
(* and the offline Agra synthesis), its narrative generator                *)
(* (analyzeSimulation), and the vision scanner (parseWeatherGraph and its  *)
(* array normaliser normalizeArray).                                       *)
(*                                                                         *)
(* Numbers are fixed point.  Weather quantities (temperature, humidity,    *)
(* cloud cover) are integers in tenths, decimal hours are integers in      *)
(* hundredths, Math.random() is an integer in thousandths (0..999).        *)
(* A JavaScript value is a record [t, v]: t is its type tag and v the      *)
(* integer it carries (0 when it carries none).                            *)
(***************************************************************************)
EXTENDS Integers, Sequences, FiniteSets, TLC

VARIABLES
    weatherKey,   \* process.env.WEATHER_API_KEY is set (truthy)
    pc,           \* per invocation: where fetchHourlyWeather is suspended
    hist,         \* per invocation: the chain states entered so far, in order
    calls,        \* log of the provider calls issued: <<invocation, provider>>
    inflight,     \* provider calls issued and not yet settled
    result,       \* per invocation: what the invocation's promise settled with
    body,         \* per invocation: the decoded body a live observation was built from
    caught,       \* per invocation: the values its catch block caught, in order
    version,      \* which version of fetchHourlyWeather runs
    apiKey,       \* process.env.API_KEY is set (read by the earlier versions)
    nImpl,        \* normalizeArray: which copy of the function is called
    nArr,         \* normalizeArray: argument arr
    nFill,        \* normalizeArray: argument fillValue
    nOut,         \* normalizeArray: returned array
    nPc,          \* normalizeArray: "idle", "call" or "done"
    sImpl,        \* parseWeatherGraph: which copy of the scanner module runs
    sKey,         \* parseWeatherGraph: process.env.API_KEY is set (truthy)
    sPc,          \* parseWeatherGraph: where the call is suspended
    sFail,        \* parseWeatherGraph: what made the call fall back, "none" if nothing
    sResp,        \* parseWeatherGraph: what generateContent resolved with
    sOut,         \* parseWeatherGraph: what the call's promise settled with
    aKey,         \* analyzeSimulation: process.env.API_KEY is set (truthy)
    aPc,          \* analyzeSimulation: where the call is suspended
    aArgs,        \* analyzeSimulation: the arguments result and params
    aOut,         \* analyzeSimulation: what the call's promise settled with
    gIndex,       \* getAgraOfflineData: argument index
    gRnd,         \* getAgraOfflineData: the values Math.random() returns, by hour
    gOut,         \* getAgraOfflineData: returned observation
    gPc,          \* getAgraOfflineData: "idle", "call" or "done"
    tStr,         \* parseTimeStr: argument timeStr
    tOut,         \* parseTimeStr: returned number
    tPc           \* parseTimeStr: "idle", "call" or "done"

fetchVars == <<weatherKey, pc, hist, calls, inflight, result, body, caught, version, apiKey>>
normVars == <<nImpl, nArr, nFill, nOut, nPc>>
scanVars == <<sImpl, sKey, sPc, sFail, sResp, sOut>>
simVars == <<aKey, aPc, aArgs, aOut>>
synthVars == <<gIndex, gRnd, gOut, gPc>>
timeVars == <<tStr, tOut, tPc>>

vars == <<fetchVars, normVars, scanVars, simVars, synthVars, timeVars>>

-----------------------------------------------------------------------------
(* JavaScript values *)

Num(n) == [t |-> "num", v |-> n]
NaN == [t |-> "nan", v |-> 0]
Undefined == [t |-> "undefined", v |-> 0]
Null == [t |-> "null", v |-> 0]

\* Infinity (v = 1) or -Infinity (v = -1), a string that is no numeral, and
\* the string that spells the integer n.
Infinity == [t |-> "inf", v |-> 1]
Text == [t |-> "text", v |-> 0]
Numeral(n) == [t |-> "numeral", v |-> n]

IsNum(x) == x.t = "num"

\* Number(x).
Number(x) ==
    CASE x.t = "num" -> x
      [] x.t = "inf" -> x
      [] x.t = "numeral" -> Num(x.v)
      [] x.t = "null" -> Num(0)
      [] OTHER -> NaN

\* isNaN(x) for a number x.
isNaN(x) == x.t = "nan"

\* x is null or undefined (the left operand of ?? is replaced).
Nullish(x) == x.t \in {"null", "undefined"}

\* x is a falsy number (the left operand of || is replaced).
FalsyNumber(x) == x.t = "nan" \/ (x.t = "num" /\ x.v = 0)

Min(a, b) == IF a < b THEN a ELSE b
Max(a, b) == IF a > b THEN a ELSE b

\* num/den (both >= 0, den > 0) rounded to the nearest integer, a tie going
\* down when tieDown and up otherwise: Number.prototype.toFixed followed by
\* parseFloat, on fixed-point operands.
RoundDiv(num, den, tieDown) ==
    IF 2 * (num % den) = den
    THEN (num \div den) + (IF tieDown THEN 0 ELSE 1)
    ELSE (2 * num + den) \div (2 * den)

\* An Error object with a message, and a thrown value that is no Error.
ErrorOf(msg) == [isError |-> TRUE, message |-> msg]
NonError(tag) == [isError |-> FALSE, message |-> tag]

-----------------------------------------------------------------------------
(* Offline synthesis: generateAgraForecast, getAgraOfflineData *)

HOURS == 24

\* AGRA_BASE, temperatures and humidity in tenths, hours in hundredths.
\* The display date each entry gets is not modelled.
generateAgraForecast ==
    << [dayOffset |-> 0, maxT |-> 285, minT |-> 124, humidBase |-> 450, cloudProfile |-> "CLEAR", sunR |-> 672, sunS |-> 1825],
       [dayOffset |-> 1, maxT |-> 291, minT |-> 131, humidBase |-> 500, cloudProfile |-> "HAZY", sunR |-> 670, sunS |-> 1827],
       [dayOffset |-> 2, maxT |-> 302, minT |-> 135, humidBase |-> 400, cloudProfile |-> "CLEAR", sunR |-> 668, sunS |-> 1828],
       [dayOffset |-> 3, maxT |-> 278, minT |-> 142, humidBase |-> 550, cloudProfile |-> "AFTERNOON_BUILDUP", sunR |-> 667, sunS |-> 1830],
       [dayOffset |-> 4, maxT |-> 265, minT |-> 151, humidBase |-> 650, cloudProfile |-> "OVERCAST", sunR |-> 665, sunS |-> 1832],
       [dayOffset |-> 5, maxT |-> 280, minT |-> 130, humidBase |-> 420, cloudProfile |-> "CLEAR", sunR |-> 663, sunS |-> 1833],
       [dayOffset |-> 6, maxT |-> 295, minT |-> 138, humidBase |-> 380, cloudProfile |-> "CLEAR", sunR |-> 662, sunS |-> 1835],
       [dayOffset |-> 7, maxT |-> 310, minT |-> 145, humidBase |-> 480, cloudProfile |-> "HAZY", sunR |-> 660, sunS |-> 1837],
       [dayOffset |-> 8, maxT |-> 322, minT |-> 150, humidBase |-> 350, cloudProfile |-> "CLEAR", sunR |-> 658, sunS |-> 1838],
       [dayOffset |-> 9, maxT |-> 335, minT |-> 162, humidBase |-> 300, cloudProfile |-> "CLEAR", sunR |-> 657, sunS |-> 1840] >>

\* 10^6 * cos(k * 2 * pi / 24) for k = 0..23.
CosTable ==
    << 1000000, 965926, 866025, 707107, 500000, 258819, 0, -258819,
       -500000, -707107, -866025, -965926, -1000000, -965926, -866025, -707107,
       -500000, -258819, 0, 258819, 500000, 707107, 866025, 965926 >>

\* Math.cos((t - 5) * 2 * Math.PI / 24) scaled by 10^6.
CosPhase(t) == CosTable[((t - 5) % 24) + 1]

\* The <<dayOffset, hour>> pairs at which minT + (maxT - minT) * weight is a
\* decimal tie (xx.x5) and its IEEE-754 double lies below the tie, so that
\* temp.toFixed(1) gives the lower tenth.  At every other tie of the table the
\* double lies above it.
TempTieDown ==
    { <<0, 11>>, <<2, 11>>, <<4, 1>>, <<4, 9>>, <<4, 13>>, <<6, 11>>, <<9, 11>> }

\* hourlyTemp[h] of the profile, in tenths.
SynthTemp(profile, h) ==
    profile.minT
    + RoundDiv((profile.maxT - profile.minT) * (1000000 - CosPhase(h)), 2000000,
               <<profile.dayOffset, h>> \in TempTieDown)

\* hourlyHumidity for the hourly temperature t (tenths), in tenths.
SynthHumidity(profile, t) ==
    Max(100, Min(950,
        profile.humidBase
        + RoundDiv(300 * (profile.maxT - t), profile.maxT - profile.minT, FALSE)))

\* Mutant of SynthCloud: noise below 10 at every hour, whatever the profile.
SynthCloudNoiseOnly(profile, h, r) == RoundDiv(r * 100, 1000, FALSE)

\* hourlyCloud[h] in tenths, r the value of Math.random() in thousandths.
SynthCloud(profile, h, r) ==
    LET dist == IF h >= 15 THEN h - 15 ELSE 15 - h
        cloud ==
            IF profile.cloudProfile = "CLEAR" THEN RoundDiv(r * 50, 1000, FALSE)
            ELSE IF profile.cloudProfile = "HAZY"
                 THEN 100 + RoundDiv(r * 100, 1000, FALSE)
            ELSE IF profile.cloudProfile = "OVERCAST"
                 THEN 700 + RoundDiv(r * 200, 1000, FALSE)
            ELSE IF profile.cloudProfile = "AFTERNOON_BUILDUP"
                 THEN IF h >= 12 /\ h <= 18
                      THEN 400 - 100 * dist + RoundDiv(r * 150, 1000, FALSE)
                      ELSE RoundDiv(r * 100, 1000, FALSE)
            ELSE 0
    IN  Max(0, Min(1000, cloud))

OfflineMeta == [source |-> "Agra Offline Database (Baseline)", isFallback |-> TRUE]

\* getAgraOfflineData(index); rnd[h] is the random draw made for hour h.
getAgraOfflineData(index, rnd) ==
    LET forecast == generateAgraForecast
        profile == IF index \in 0..(Len(forecast) - 1)
                   THEN forecast[index + 1] ELSE forecast[1]
    IN  [ hourlyTemp |-> [h \in 1..HOURS |-> Num(SynthTemp(profile, h - 1))],
          hourlyHumidity |->
              [h \in 1..HOURS |-> Num(SynthHumidity(profile, SynthTemp(profile, h - 1)))],
          hourlyCloud |-> [h \in 1..HOURS |-> Num(SynthCloud(profile, h - 1, rnd[h - 1]))],
          sunriseHour |-> Num(profile.sunR),
          sunsetHour |-> Num(profile.sunS),
          meta |-> OfflineMeta,
          error |-> << >> ]

\* The random draws of one synthesis: every hour the same level, or one hour
\* at one extreme and the other hours at the other.
RandLevels == {0, 500, 999}
RandStreams ==
    { [h \in 0..(HOURS - 1) |-> r] : r \in RandLevels }
    \cup { [h \in 0..(HOURS - 1) |-> IF h = h0 THEN e ELSE 999 - e] :
             h0 \in 0..(HOURS - 1), e \in {0, 999} }

\* Random draws that are level over the night hours 0..4, level over the
\* afternoon hours 13..17 and level over the other hours.
BandStreams ==
    { [h \in 0..(HOURS - 1) |->
          IF h <= 4 THEN night ELSE IF h >= 13 /\ h <= 17 THEN noon ELSE other] :
        night \in RandLevels, noon \in RandLevels, other \in RandLevels }

\* The arguments getAgraOfflineData is called with: every table index, and
\* one below and one above the table.
SynthIndexes == (0 - 1)..Len(generateAgraForecast)

\* The profile getAgraOfflineData(index) uses: forecast[index] || forecast[0].
ProfileOf(index) ==
    IF index \in 0..(Len(generateAgraForecast) - 1)
    THEN generateAgraForecast[index + 1] ELSE generateAgraForecast[1]

\* getAgraOfflineData(index) is called and returns.
CallGetAgraOfflineData ==
    /\ gPc = "call"
    /\ gOut' = getAgraOfflineData(gIndex, gRnd)
    /\ gPc' = "done"
    /\ UNCHANGED <<gIndex, gRnd>>
    /\ UNCHANGED <<fetchVars, normVars, scanVars, simVars, timeVars>>

-----------------------------------------------------------------------------
(* Decoded provider payloads *)

\* A JSON property that should hold an array: kind is "array", "undefined"
\* (the property is missing) or "scalar" (a number: it has no slice or map).
ArrayOf(elems) == [kind |-> "array", elems |-> elems]
NoArray(kind) == [kind |-> kind, elems |-> << >>]

\* n copies of x, as a sequence.
Repeat(x, n) == [k \in 1..n |-> x]

\* How far beyond 24 elements the enumerated provider arrays go.
MaxExtra == 1

LongLengths == { HOURS + k : k \in 1..MaxExtra }

\* An ISO local time "....-..-..Thh:mm" as Date reads it; valid = FALSE is a
\* string Date cannot parse.
IsoTime(h, m) == [valid |-> TRUE, h |-> h, m |-> m]
BadIsoTime == [valid |-> FALSE, h |-> 0, m |-> 0]

\* Bodies the keyless endpoint may be decoded to.
OpenMeteoPayloads ==
    [ hourly : BOOLEAN,
      temperature_2m :
          { ArrayOf(Repeat(Num(215), HOURS)), ArrayOf(Repeat(Num(215), HOURS - 1)),
            NoArray("undefined") }
          \cup { ArrayOf(Repeat(Num(215), n)) : n \in LongLengths },
      relative_humidity_2m :
          { ArrayOf(Repeat(Num(500), HOURS)), ArrayOf(Repeat(Num(1000), HOURS)),
            ArrayOf(<< >>), NoArray("scalar") },
      cloud_cover :
          { ArrayOf(Repeat(Num(300), HOURS)), ArrayOf(Repeat(Null, HOURS)),
            NoArray("undefined") }
          \cup { ArrayOf(Repeat(Num(300), n)) : n \in LongLengths },
      daily : BOOLEAN,
      sunrise :
          { ArrayOf(<<IsoTime(6, 43)>>), ArrayOf(<<IsoTime(19, 0)>>),
            ArrayOf(<<BadIsoTime>>), ArrayOf(<< >>), NoArray("undefined") },
      sunset : { ArrayOf(<<IsoTime(18, 15)>>), NoArray("undefined") } ]

\* One element of forecast.hour: an object with its three readings, or null.
HourObject(temp, humidity, cloud) ==
    [isObject |-> TRUE, temp_c |-> temp, humidity |-> humidity, cloud |-> cloud]
NullHour == [isObject |-> FALSE, temp_c |-> Undefined, humidity |-> Undefined, cloud |-> Undefined]

GoodHour == HourObject(Num(215), Num(500), Num(300))

\* An astro time string: "hh:mm AM" / "hh:mm PM" (kind "hhmm", period "" when
\* the suffix is missing), text without digits (kind "text"), or a missing
\* property (kind "undefined").
TimeStr(hh, mm, period) == [kind |-> "hhmm", hh |-> hh, mm |-> mm, period |-> period]
NoTimeStr(kind) == [kind |-> kind, hh |-> 0, mm |-> 0, period |-> ""]

\* Bodies the keyed endpoint may be decoded to.  forecastday is "one" (an
\* array whose first element is the day object described by hour, astro,
\* sunrise and sunset), "empty" or "undefined".
WeatherAPIPayloads ==
    [ forecast : BOOLEAN,
      forecastday : {"one", "empty", "undefined"},
      hour :
          { ArrayOf(Repeat(GoodHour, HOURS)), ArrayOf(Repeat(GoodHour, HOURS - 1)),
            ArrayOf(Repeat(HourObject(Num(215), Num(1000), Num(300)), HOURS)),
            ArrayOf(Repeat(HourObject(Undefined, Num(500), Num(300)), HOURS)),
            ArrayOf(Repeat(NullHour, HOURS)),
            NoArray("undefined") }
          \cup { ArrayOf(Repeat(GoodHour, n)) : n \in LongLengths },
      astro : BOOLEAN,
      sunrise :
          { TimeStr(6, 34, "AM"), TimeStr(7, 10, "PM"), TimeStr(12, 5, "AM"),
            NoTimeStr("text"), NoTimeStr("undefined") },
      sunset : { TimeStr(6, 15, "PM"), TimeStr(12, 30, "PM"), NoTimeStr("undefined") },
      location : BOOLEAN,
      localtime : BOOLEAN ]

-----------------------------------------------------------------------------
(* Live provider adapters: fetchFromOpenMeteo, fetchFromWeatherAPI *)

\* Array.prototype.slice(0, 24).
Slice24(elems) == SubSeq(elems, 1, Min(Len(elems), HOURS))

\* (h + m / 60).toFixed(2), in hundredths; never a tie, 100 / 60 = 5 / 3.
DecimalHour(h, m) == Num(RoundDiv((60 * h + m) * 5, 3, FALSE))

\* getHour(arr[0]) for the daily.sunrise / daily.sunset array.
getHour(arr) ==
    IF Len(arr.elems) = 0 \/ ~ arr.elems[1].valid
    THEN NaN
    ELSE DecimalHour(arr.elems[1].h, arr.elems[1].m)

TypeErrorValue == [isError |-> TRUE, message |-> "TypeError: cannot read properties"]

\* The return expression of fetchFromOpenMeteo throws a TypeError.
OpenMeteoThrows(data) ==
    \/ ~ data.hourly
    \/ data.temperature_2m.kind # "array"
    \/ data.relative_humidity_2m.kind # "array"
    \/ data.cloud_cover.kind # "array"
    \/ ~ data.daily
    \/ data.sunrise.kind = "undefined"
    \/ data.sunset.kind = "undefined"

\* Mutant of OpenMeteoMeta: the live adapter flags its observation as fallback.
OpenMeteoMetaFallback == [source |-> "Open-Meteo (Free/Live)", isFallback |-> TRUE]

OpenMeteoMeta == [source |-> "Open-Meteo (Free/Live)", isFallback |-> FALSE]

\* The observation fetchFromOpenMeteo returns when it does not throw.
OpenMeteoObservation(data) ==
    [ hourlyTemp |-> Slice24(data.temperature_2m.elems),
      hourlyHumidity |-> Slice24(data.relative_humidity_2m.elems),
      hourlyCloud |-> Slice24(data.cloud_cover.elems),
      sunriseHour |-> getHour(data.sunrise),
      sunsetHour |-> getHour(data.sunset),
      meta |-> OpenMeteoMeta,
      error |-> << >> ]

\* Mutant of parseTimeStr: without the rule that turns 12 AM into hour 0.
parseTimeStrNoMidnight(timeStr) ==
    IF timeStr.kind # "hhmm" THEN NaN
    ELSE LET h == IF timeStr.period = "PM" /\ timeStr.hh # 12 THEN timeStr.hh + 12
                  ELSE timeStr.hh
         IN  DecimalHour(h, timeStr.mm)

\* parseTimeStr for a time string that is present.
parseTimeStr(timeStr) ==
    IF timeStr.kind # "hhmm" THEN NaN
    ELSE LET h == IF timeStr.period = "PM" /\ timeStr.hh # 12 THEN timeStr.hh + 12
                  ELSE IF timeStr.period = "AM" /\ timeStr.hh = 12 THEN 0
                  ELSE timeStr.hh
         IN  DecimalHour(h, timeStr.mm)

\* The hours and minutes of a 12-hour clock.
ClockHours == 1..12
ClockMinutes == 0..59

\* The strings parseTimeStr is called with: every "hh:mm AM" and "hh:mm PM",
\* a time without its suffix, and a text without digits.
TimeStrings ==
    { TimeStr(hh, mm, period) :
        hh \in ClockHours, mm \in ClockMinutes, period \in {"AM", "PM"} }
    \cup { TimeStr(6, 34, ""), TimeStr(12, 5, ""), NoTimeStr("text") }

\* parseTimeStr(timeStr) is called and returns.
CallParseTimeStr ==
    /\ tPc = "call"
    /\ tOut' = parseTimeStr(tStr)
    /\ tPc' = "done"
    /\ UNCHANGED tStr
    /\ UNCHANGED <<fetchVars, normVars, scanVars, simVars, synthVars>>

\* The body of fetchFromWeatherAPI after res.json() throws a TypeError.
WeatherAPIThrows(data) ==
    \/ ~ data.forecast
    \/ data.forecastday # "one"
    \/ data.hour.kind # "array"
    \/ \E k \in 1..Len(data.hour.elems) : ~ data.hour.elems[k].isObject
    \/ ~ data.astro
    \/ data.sunrise.kind = "undefined"
    \/ data.sunset.kind = "undefined"
    \/ ~ data.location
    \/ ~ data.localtime

WeatherAPIMeta == [source |-> "WeatherAPI.com (Live)", isFallback |-> FALSE]

\* The observation fetchFromWeatherAPI returns when it does not throw.
WeatherAPIObservation(data) ==
    LET hours == data.hour.elems
    IN  [ hourlyTemp |-> [k \in 1..Len(hours) |-> hours[k].temp_c],
          hourlyHumidity |-> [k \in 1..Len(hours) |-> hours[k].humidity],
          hourlyCloud |-> [k \in 1..Len(hours) |-> hours[k].cloud],
          sunriseHour |-> parseTimeStr(data.sunrise),
          sunsetHour |-> parseTimeStr(data.sunset),
          meta |-> WeatherAPIMeta,
          error |-> << >> ]

-----------------------------------------------------------------------------
(* The array normaliser of the vision scanner: normalizeArray *)

NORM_LEN == 24

\* `while (result.length < 24) result.push(result[result.length - 1] ?? fillValue)`.
RECURSIVE PadLoop(_, _)
PadLoop(res, fillValue) ==
    IF Len(res) < NORM_LEN
    THEN PadLoop(Append(res, IF Len(res) = 0 \/ Nullish(res[Len(res)])
                             THEN fillValue ELSE res[Len(res)]),
                 fillValue)
    ELSE res

\* Mutant of NormSlice: the last 24 elements are kept.
NormSliceTail(res) == SubSeq(res, Max(1, Len(res) - NORM_LEN + 1), Len(res))

\* result.slice(0, 24).
NormSlice(res) == SubSeq(res, 1, Min(Len(res), NORM_LEN))

\* The element map of the later copy: isNaN(Number(n)) ? fillValue : Number(n).
CoerceIsNaN(n, fillValue) == IF isNaN(Number(n)) THEN fillValue ELSE Number(n)

\* The element map of the earlier copy: Number(n) || fillValue.
CoerceOr(n, fillValue) == IF FalsyNumber(Number(n)) THEN fillValue ELSE Number(n)

\* Mutant of normalizeArray: no Array.isArray guard and no padding loop.
normalizeArrayUnpadded(arr, fillValue) ==
    LET res == NormSlice(arr.elems)
    IN  [k \in 1..Len(res) |-> CoerceIsNaN(res[k], fillValue)]

\* normalizeArray, the copy that tests isNaN.
normalizeArray(arr, fillValue) ==
    IF arr.kind # "array" THEN Repeat(fillValue, NORM_LEN)
    ELSE LET res == NormSlice(PadLoop(arr.elems, fillValue))
         IN  [k \in 1..Len(res) |-> CoerceIsNaN(res[k], fillValue)]

\* normalizeArray, the copy that uses ||.
normalizeArrayOr(arr, fillValue) ==
    IF arr.kind # "array" THEN Repeat(fillValue, NORM_LEN)
    ELSE LET res == NormSlice(PadLoop(arr.elems, fillValue))
         IN  [k \in 1..Len(res) |-> CoerceOr(res[k], fillValue)]

\* Elements an input array is made of.
NormValues ==
    { Num(0), Num(4), Num(7), Num(9), Num(-3), Numeral(4), Text, Null, Undefined,
      Infinity }

\* Fill values.
NormFills == { Num(0), Num(2), Num(5) }

\* The short input lengths are 0..MaxShort.
MaxShort == 3

NormLengths ==
    (0..MaxShort) \cup { NORM_LEN - 1, NORM_LEN } \cup { NORM_LEN + k : k \in 1..MaxExtra }

\* The array [1, 2, ..., 30].
OneToThirty == [k \in 1..30 |-> Num(k)]

\* Input arrays: a first element, a last element, and one value in between;
\* and thirty distinct numbers.
NormArrays ==
    { [k \in 1..n |-> IF k = n THEN last ELSE IF k = 1 THEN first ELSE mid] :
        n \in NormLengths, first \in NormValues, mid \in NormValues, last \in NormValues }
    \cup { OneToThirty }

\* What Array.isArray rejects: undefined, null, a number, a string, an object.
NonArrayKinds == { "undefined", "null", "scalar", "string", "object" }

\* The arguments of normalizeArray.
NormInputs ==
    { ArrayOf(a) : a \in NormArrays } \cup { NoArray(kind) : kind \in NonArrayKinds }

\* normalizeArray of the later copy is called and returns.
CallNormalizeArray ==
    /\ nPc = "call"
    /\ nImpl = "isNaN"
    /\ nOut' = normalizeArray(nArr, nFill)
    /\ nPc' = "done"
    /\ UNCHANGED <<nImpl, nArr, nFill>>
    /\ UNCHANGED <<fetchVars, scanVars, simVars, synthVars, timeVars>>

\* normalizeArray of the earlier copy is called and returns.
CallNormalizeArrayOr ==
    /\ nPc = "call"
    /\ nImpl = "or"
    /\ nOut' = normalizeArrayOr(nArr, nFill)
    /\ nPc' = "done"
    /\ UNCHANGED <<nImpl, nArr, nFill>>
    /\ UNCHANGED <<fetchVars, scanVars, simVars, synthVars, timeVars>>

-----------------------------------------------------------------------------
(* The vision scanner: parseWeatherGraph *)

\* An array or object met as an array element: Number of it is NaN.
Nested == [t |-> "object", v |-> 0]

\* createFallbackProfile().
createFallbackProfile ==
    [ hourlyTemp |-> Repeat(Num(25), 24),
      hourlyHumidity |-> Repeat(Num(50), 24),
      hourlyCloud |-> Repeat(Num(0), 24) ]

\* normalizeArray as the copy of the module that runs defines it.
normalizeArrayOf(impl, arr, fillValue) ==
    IF impl = "or" THEN normalizeArrayOr(arr, fillValue) ELSE normalizeArray(arr, fillValue)

\* What data.hourlyTemp (hourlyHumidity, hourlyCloud) may be after JSON.parse:
\* a missing key, null, a string, an object, and arrays that are empty, hold 24
\* numbers, hold an overflowed number (1e999 parses to Infinity), hold null,
\* a string and a nested value, or are longer than 24.
ScanFields ==
    { NoArray("undefined"), NoArray("null"), NoArray("string"), NoArray("object"),
      ArrayOf(<< >>),
      ArrayOf(Repeat(Num(21), 24)),
      ArrayOf(<<Infinity>>),
      ArrayOf(<<Num(18), Null, Text, Nested>>),
      ArrayOf(Repeat(Num(30), 24 + MaxExtra)) }

\* What JSON.parse(response.text) may return: null, a number, or an object.
ParsedJson ==
    { [kind |-> "null"], [kind |-> "scalar"] } \cup
    [ kind : {"object"}, hourlyTemp : ScanFields, hourlyHumidity : ScanFields,
      hourlyCloud : ScanFields ]

\* response.text: undefined, "", a text that is no JSON, or a JSON text.
ResponseTexts ==
    { [t |-> "undefined"], [t |-> "empty"], [t |-> "garbage"] } \cup
    { [t |-> "json", json |-> j] : j \in ParsedJson }

\* What generateContent may resolve with: undefined or a response.
ScanResponses ==
    { [kind |-> "undefined"] } \cup { [kind |-> "response", text |-> t] : t \in ResponseTexts }

\* Property key of the value JSON.parse returned (undefined on a number).
FieldOf(json, key) == IF json.kind = "object" THEN json[key] ELSE NoArray("undefined")

\* What the statements after the await throw for a response, "none" if
\* nothing: the Error of the emptiness test, the SyntaxError of JSON.parse,
\* the TypeError of reading a property of null.
ScanThrows(resp) ==
    IF resp.kind = "undefined" THEN "empty_text"
    ELSE IF resp.text.t \in {"undefined", "empty"} THEN "empty_text"
    ELSE IF resp.text.t = "garbage" THEN "bad_json"
    ELSE IF resp.text.json.kind = "null" THEN "type_error"
    ELSE "none"

\* The object of the return statement inside the try.
ScanProfile(impl, json) ==
    [ hourlyTemp |-> normalizeArrayOf(impl, FieldOf(json, "hourlyTemp"), Num(25)),
      hourlyHumidity |-> normalizeArrayOf(impl, FieldOf(json, "hourlyHumidity"), Num(50)),
      hourlyCloud |-> normalizeArrayOf(impl, FieldOf(json, "hourlyCloud"), Num(0)) ]

\* Mutant of parseWeatherGraphCatch: the catch block rethrows.
parseWeatherGraphRethrow(cause) == [kind |-> "thrown", thrown |-> cause]

\* The catch block of parseWeatherGraph.
parseWeatherGraphCatch(cause) == [kind |-> "returned", value |-> createFallbackProfile]

\* The call falls back for the given cause.
ScanCatches(cause) ==
    /\ sPc' = "DONE"
    /\ sFail' = cause
    /\ sOut' = parseWeatherGraphCatch(cause)

\* parseWeatherGraph is called: without API key it returns the fallback
\* profile, with one it starts reading the file.
ScanStart ==
    /\ sPc = "START"
    /\ IF ~sKey
       THEN /\ sPc' = "DONE"
            /\ sFail' = "no_key"
            /\ sOut' = [kind |-> "returned", value |-> createFallbackProfile]
       ELSE /\ sPc' = "READ_FILE"
            /\ UNCHANGED <<sFail, sOut>>
    /\ UNCHANGED <<sImpl, sKey, sResp>>
    /\ UNCHANGED <<fetchVars, normVars, simVars, synthVars, timeVars>>

\* The FileReader reports an error: fileToGenerativePart rejects.
FileReadRejects ==
    /\ sPc = "READ_FILE"
    /\ ScanCatches("file_error")
    /\ UNCHANGED <<sImpl, sKey, sResp>>
    /\ UNCHANGED <<fetchVars, normVars, simVars, synthVars, timeVars>>

\* The file is read; generateContent is called.
FileReadResolves ==
    /\ sPc = "READ_FILE"
    /\ sPc' = "GENERATE"
    /\ UNCHANGED <<sImpl, sKey, sFail, sResp, sOut>>
    /\ UNCHANGED <<fetchVars, normVars, simVars, synthVars, timeVars>>

\* generateContent rejects.
GenerateRejects ==
    /\ sPc = "GENERATE"
    /\ ScanCatches("model_rejected")
    /\ UNCHANGED <<sImpl, sKey, sResp>>
    /\ UNCHANGED <<fetchVars, normVars, simVars, synthVars, timeVars>>

\* generateContent resolves: the response is tested, parsed and normalised.
GenerateResolves ==
    /\ sPc = "GENERATE"
    /\ \E resp \in ScanResponses :
        /\ sResp' = resp
        /\ IF ScanThrows(resp) # "none"
           THEN ScanCatches(ScanThrows(resp))
           ELSE /\ sPc' = "DONE"
                /\ sFail' = "none"
                /\ sOut' = [kind |-> "returned", value |-> ScanProfile(sImpl, resp.text.json)]
    /\ UNCHANGED <<sImpl, sKey>>
    /\ UNCHANGED <<fetchVars, normVars, simVars, synthVars, timeVars>>

-----------------------------------------------------------------------------
(* The narrative generator: analyzeSimulation *)

\* An element of result.hourlyData: the five fields toFixed(3) is called on.
HourRow(load, solar, gridIn, gridOut, batt) ==
    [ isObject |-> TRUE, adjustedLoadMW |-> load, solarMW |-> solar,
      gridImportMW |-> gridIn, gridExportMW |-> gridOut, batteryFlowMW |-> batt ]

\* undefined in the place of an element of result.hourlyData.
NoRow ==
    [ isObject |-> FALSE, adjustedLoadMW |-> Undefined, solarMW |-> Undefined,
      gridImportMW |-> Undefined, gridExportMW |-> Undefined, batteryFlowMW |-> Undefined ]

GoodRow == HourRow(Num(12), Num(3), Num(9), Num(0), Num(0))

\* The arguments of analyzeSimulation: params.hourlyCloud and
\* params.hourlyTemp (arrays, empty arrays, or missing) and result.hourlyData
\* (rows, no rows, a row with a missing or null field, a missing row, or no
\* array at all).
SimArgs ==
    [ kind : {"args"},
      hourlyCloud : { ArrayOf(<<Num(10), Num(20)>>), ArrayOf(<< >>), NoArray("undefined") },
      hourlyTemp : { ArrayOf(<<Num(21), Num(24)>>), ArrayOf(<< >>), NoArray("undefined") },
      hourlyData :
          { ArrayOf(<<GoodRow, GoodRow>>), ArrayOf(<<GoodRow>>), ArrayOf(<< >>),
            ArrayOf(<<GoodRow, HourRow(Num(12), Undefined, Num(9), Num(0), Num(0))>>),
            ArrayOf(<<HourRow(Num(12), Num(3), Num(9), Num(0), Null)>>),
            ArrayOf(<<NoRow>>),
            NoArray("undefined") } ]

\* x.toFixed(3) throws a TypeError: x is no number (NaN and Infinity have toFixed).
ToFixedThrows(x) == x.t \notin {"num", "nan", "inf"}

\* The map callback of formatDataForPrompt throws on the row h.
RowThrows(h) ==
    \/ ~h.isObject
    \/ ToFixedThrows(h.adjustedLoadMW)
    \/ ToFixedThrows(h.solarMW)
    \/ ToFixedThrows(h.gridImportMW)
    \/ ToFixedThrows(h.gridExportMW)
    \/ ToFixedThrows(h.batteryFlowMW)

\* formatDataForPrompt(result, params) throws a TypeError: reduce or map is
\* called on what is no array, or the map callback throws.
formatDataForPromptThrows(args) ==
    \/ args.hourlyCloud.kind # "array"
    \/ args.hourlyTemp.kind # "array"
    \/ args.hourlyData.kind # "array"
    \/ \E k \in 1..Len(args.hourlyData.elems) : RowThrows(args.hourlyData.elems[k])

\* What generateContent may reject with.
ModelErrors == { ErrorOf("503 Service Unavailable"), ErrorOf(""), NonError("aborted") }

\* What generateContent may resolve with: undefined, or a response whose
\* text is undefined, "" or some text.
SimResponses ==
    { [kind |-> "undefined"], [kind |-> "response", text |-> "undefined"],
      [kind |-> "response", text |-> "empty"], [kind |-> "response", text |-> "html"] }

\* The fragment returned when the API key is missing.
KeyMissingFragment ==
    [ kind |-> "returned",
      html |-> [fragment |-> "error", message |-> "API Key not detected."] ]

\* The catch block of analyzeSimulation for the caught value e.
analyzeSimulationCatch(e) ==
    [ kind |-> "returned",
      html |-> [fragment |-> "error",
                message |-> IF e.isError THEN e.message ELSE "Unknown"] ]

\* analyzeSimulation is called: the key test, the GoogleGenAI client and the
\* prompt template, which calls formatDataForPrompt, all run before the try.
SimStart ==
    /\ aPc = "START"
    /\ IF ~aKey
       THEN aPc' = "DONE" /\ aOut' = KeyMissingFragment
       ELSE IF formatDataForPromptThrows(aArgs)
            THEN aPc' = "DONE" /\ aOut' = [kind |-> "thrown", thrown |-> TypeErrorValue]
            ELSE aPc' = "GENERATE" /\ UNCHANGED aOut
    /\ UNCHANGED <<aKey, aArgs>>
    /\ UNCHANGED <<fetchVars, normVars, scanVars, synthVars, timeVars>>

\* generateContent rejects: the catch block renders the error.
SimGenerateRejects ==
    /\ aPc = "GENERATE"
    /\ \E e \in ModelErrors : aOut' = analyzeSimulationCatch(e)
    /\ aPc' = "DONE"
    /\ UNCHANGED <<aKey, aArgs>>
    /\ UNCHANGED <<fetchVars, normVars, scanVars, synthVars, timeVars>>

\* generateContent resolves: an empty response is thrown and caught, a text
\* is returned stripped of its code fences.
SimGenerateResolves ==
    /\ aPc = "GENERATE"
    /\ \E resp \in SimResponses :
          aOut' = IF resp.kind = "undefined" \/ resp.text \in {"undefined", "empty"}
                  THEN analyzeSimulationCatch(ErrorOf("Empty response from AI"))
                  ELSE [kind |-> "returned", html |-> [fragment |-> "analysis", message |-> ""]]
    /\ aPc' = "DONE"
    /\ UNCHANGED <<aKey, aArgs>>
    /\ UNCHANGED <<fetchVars, normVars, scanVars, synthVars, timeVars>>

-----------------------------------------------------------------------------
(* The provider chain: fetchHourlyWeather *)

\* What fetch() may reject with: an Error, an Error whose message is empty,
\* or a thrown value that is no Error.
TransportErrors == { ErrorOf("Failed to fetch"), ErrorOf(""), NonError("aborted") }

\* res.statusText of a response whose ok flag is false.
StatusTexts == { "", "Not Found", "Too Many Requests" }

\* What res.json() may reject with.
ParseErrors == { ErrorOf("SyntaxError: unexpected token in JSON") }

Invocations == DOMAIN pc

\* More than one invocation is under way.
Concurrent == Cardinality(Invocations) > 1

\* The decoded bodies explored: every body of OpenMeteoPayloads for a single
\* invocation; for concurrent invocations the bodies that differ only in the
\* length of temperature_2m and in cloud_cover and sunset being there.
OpenMeteoBodies ==
    IF Concurrent
    THEN { d \in OpenMeteoPayloads :
             /\ d.hourly /\ d.daily
             /\ d.temperature_2m.kind = "array"
             /\ Len(d.temperature_2m.elems) \in {HOURS - 1, HOURS}
             /\ d.relative_humidity_2m = ArrayOf(Repeat(Num(500), HOURS))
             /\ d.cloud_cover \in { ArrayOf(Repeat(Num(300), HOURS)), NoArray("undefined") }
             /\ d.sunrise = ArrayOf(<<IsoTime(6, 43)>>) }
    ELSE OpenMeteoPayloads

\* Likewise for the keyed endpoint: the bodies that differ only in hour and
\* in sunset being there.
WeatherAPIBodies ==
    IF Concurrent
    THEN { d \in WeatherAPIPayloads :
             /\ d.forecast /\ d.astro /\ d.location /\ d.localtime
             /\ d.forecastday = "one"
             /\ d.hour \in { ArrayOf(Repeat(GoodHour, HOURS)),
                             ArrayOf(Repeat(GoodHour, HOURS - 1)), NoArray("undefined") }
             /\ d.sunrise = TimeStr(6, 34, "AM") }
    ELSE WeatherAPIPayloads

\* The random draws explored: RandStreams for a single invocation, the level
\* streams for concurrent invocations.
Draws ==
    IF Concurrent
    THEN { [h \in 0..(HOURS - 1) |-> r] : r \in RandLevels }
    ELSE RandStreams

\* Mutant of FirstProvider: the keyed adapter is called whatever the credential.
FirstProviderAlwaysKeyed(key) == "keyed"

\* The adapter fetchHourlyWeather calls, by the credential it read.
FirstProvider(key) == IF key THEN "keyed" ELSE "keyless"

\* The adapter an invocation is suspended in.
Provider(i) == IF pc[i] \in {"KEYED_FETCH", "KEYED_JSON"} THEN "keyed" ELSE "keyless"

\* The Error an adapter throws for a response that is not ok.
StatusError(provider, statusText) ==
    ErrorOf((IF provider = "keyed" THEN "WeatherAPI Error: " ELSE "OpenMeteo Error: ")
            \o statusText)

\* Mutant of fetchHourlyWeatherCatch: the catch block rethrows.
fetchHourlyWeatherRethrow(e, rnd) == [kind |-> "thrown", thrown |-> e]

\* Mutant of fetchHourlyWeatherCatch: the catch block synthesizes the
\* profile of day offset 3.
fetchHourlyWeatherCatchDay3(e, rnd) ==
    [ kind |-> "returned",
      obs |-> [ getAgraOfflineData(3, rnd) EXCEPT
                  !.error = << IF e.isError THEN e.message ELSE "Fetch Failed" >> ] ]

\* The catch block of fetchHourlyWeather for the caught value e: what the
\* invocation settles with.
fetchHourlyWeatherCatch(e, rnd) ==
    [ kind |-> "returned",
      obs |-> [ getAgraOfflineData(0, rnd) EXCEPT
                  !.error = << IF e.isError THEN e.message ELSE "Fetch Failed" >> ] ]

\* Mutant of Returns: the observation is kept in one place that every
\* invocation returns from.
ReturnsShared(i, data, obs) ==
    /\ pc' = [pc EXCEPT ![i] = "DONE"]
    /\ hist' = [hist EXCEPT ![i] = Append(@, "DONE")]
    /\ inflight' = inflight \ { <<i, Provider(i)>> }
    /\ result' = [j \in DOMAIN result |-> [kind |-> "returned", obs |-> obs]]
    /\ body' = [body EXCEPT ![i] = [provider |-> Provider(i), data |-> data]]
    /\ UNCHANGED <<weatherKey, apiKey, version, calls, caught>>
    /\ UNCHANGED <<normVars, scanVars, simVars, synthVars, timeVars>>

\* `return await adapter(...)` with the adapter's promise fulfilled by obs,
\* which the adapter built from the decoded body data.
Returns(i, data, obs) ==
    /\ pc' = [pc EXCEPT ![i] = "DONE"]
    /\ hist' = [hist EXCEPT ![i] = Append(@, "DONE")]
    /\ inflight' = inflight \ { <<i, Provider(i)>> }
    /\ result' = [result EXCEPT ![i] = [kind |-> "returned", obs |-> obs]]
    /\ body' = [body EXCEPT ![i] = [provider |-> Provider(i), data |-> data]]
    /\ UNCHANGED <<weatherKey, apiKey, version, calls, caught>>
    /\ UNCHANGED <<normVars, scanVars, simVars, synthVars, timeVars>>

\* Mutant of Catches: the catch block retries, the invocation starts over.
CatchesRetry(i, e) ==
    /\ pc' = [pc EXCEPT ![i] = "START"]
    /\ hist' = [hist EXCEPT ![i] = <<"START">>]
    /\ inflight' = inflight \ { <<i, Provider(i)>> }
    /\ calls' = << >>
    /\ UNCHANGED <<weatherKey, apiKey, version, result, body, caught>>
    /\ UNCHANGED <<normVars, scanVars, simVars, synthVars, timeVars>>

\* The adapter's promise rejected with e: the catch block runs to its return.
Catches(i, e) ==
    \E rnd \in Draws :
        /\ pc' = [pc EXCEPT ![i] = "DONE"]
        /\ hist' = [hist EXCEPT ![i] = @ \o <<"SYNTHESIZE", "DONE">>]
        /\ inflight' = inflight \ { <<i, Provider(i)>> }
        /\ result' = [result EXCEPT ![i] = fetchHourlyWeatherCatch(e, rnd)]
        /\ caught' = [caught EXCEPT ![i] = Append(@, e)]
        /\ UNCHANGED <<weatherKey, apiKey, version, calls, body>>
        /\ UNCHANGED <<normVars, scanVars, simVars, synthVars, timeVars>>

\* fetchHourlyWeather up to the first await: read the credential, call the
\* adapter, which issues its HTTP request.
Start(i) ==
    /\ version = "current"
    /\ pc[i] = "START"
    /\ LET provider == FirstProvider(weatherKey)
       IN  /\ pc' = [pc EXCEPT ![i] = IF provider = "keyed" THEN "KEYED_FETCH"
                                       ELSE "KEYLESS_FETCH"]
           /\ hist' = [hist EXCEPT ![i] = Append(@, IF provider = "keyed" THEN "TRY_KEYED"
                                                    ELSE "TRY_KEYLESS")]
           /\ calls' = Append(calls, <<i, provider>>)
           /\ inflight' = inflight \cup { <<i, provider>> }
    /\ UNCHANGED <<weatherKey, apiKey, version, result, body, caught>>
    /\ UNCHANGED <<normVars, scanVars, simVars, synthVars, timeVars>>

\* fetch(url) rejects (transport failure).
FetchRejects(i) ==
    /\ pc[i] \in {"KEYED_FETCH", "KEYLESS_FETCH"}
    /\ \E e \in TransportErrors : Catches(i, e)

\* fetch(url) resolves with a response that is not ok: the adapter throws.
FetchNotOk(i) ==
    /\ pc[i] \in {"KEYED_FETCH", "KEYLESS_FETCH"}
    /\ \E st \in StatusTexts : Catches(i, StatusError(Provider(i), st))

\* fetch(url) resolves with an ok response: the adapter awaits res.json().
FetchOk(i) ==
    /\ pc[i] \in {"KEYED_FETCH", "KEYLESS_FETCH"}
    /\ pc' = [pc EXCEPT ![i] = IF pc[i] = "KEYED_FETCH" THEN "KEYED_JSON"
                                ELSE "KEYLESS_JSON"]
    /\ UNCHANGED <<weatherKey, apiKey, version, hist, calls, inflight, result, body, caught>>
    /\ UNCHANGED <<normVars, scanVars, simVars, synthVars, timeVars>>

\* res.json() rejects (the body is not JSON).
JsonRejects(i) ==
    /\ pc[i] \in {"KEYED_JSON", "KEYLESS_JSON"}
    /\ \E e \in ParseErrors : Catches(i, e)

\* res.json() resolves in fetchFromOpenMeteo: the rest of the adapter and of
\* fetchHourlyWeather runs.
KeylessJsonResolves(i) ==
    /\ pc[i] = "KEYLESS_JSON"
    /\ \/ IF \E data \in OpenMeteoBodies : OpenMeteoThrows(data)
          THEN Catches(i, TypeErrorValue)
          ELSE FALSE
       \/ \E data \in OpenMeteoBodies :
             /\ ~ OpenMeteoThrows(data)
             /\ Returns(i, data, OpenMeteoObservation(data))

\* res.json() resolves in fetchFromWeatherAPI.
KeyedJsonResolves(i) ==
    /\ pc[i] = "KEYED_JSON"
    /\ \/ IF \E data \in WeatherAPIBodies : WeatherAPIThrows(data)
          THEN Catches(i, TypeErrorValue)
          ELSE FALSE
       \/ \E data \in WeatherAPIBodies :
             /\ ~ WeatherAPIThrows(data)
             /\ Returns(i, data, WeatherAPIObservation(data))

FetchStep(i) ==
    \/ Start(i)
    \/ FetchRejects(i)
    \/ FetchNotOk(i)
    \/ FetchOk(i)
    \/ JsonRejects(i)
    \/ KeylessJsonResolves(i)
    \/ KeyedJsonResolves(i)

-----------------------------------------------------------------------------
(* The earlier versions of fetchHourlyWeather, which ask the generative      *)
(* model for the forecast: "grounded" falls back on getAgraOfflineData(0),   *)
(* "preset" on getFallbackWeather().                                         *)

LegacyVersions == { "grounded", "preset" }

\* getFallbackWeather(): the preset drawn by Math.random(), isFallback and
\* the error text it always carries.  The three hourly arrays it computes
\* from the preset are not modelled.
getFallbackWeather(preset) ==
    [ preset |-> preset, isFallback |-> TRUE, error |-> << "Local Fallback Used" >> ]

\* Indexes of WEATHER_PRESETS.
PresetIndexes == 0..9

\* The fallback observations a version may build: one per random outcome.
LegacyFallbacks(v) ==
    IF v = "grounded"
    THEN { getAgraOfflineData(0, rnd) : rnd \in RandStreams }
    ELSE { getFallbackWeather(preset) : preset \in PresetIndexes }

\* error.message || "API Error" for the caught value e.
LegacyErrorText(e) == IF e.isError /\ e.message # "" THEN e.message ELSE "API Error"

\* The catch block of the earlier versions.
LegacyCatch(e, fallback) ==
    [ kind |-> "returned", obs |-> [fallback EXCEPT !.error = << LegacyErrorText(e) >>] ]

\* data.hourlyTemp and data.hourlyHumidity of the forecast the model wrote.
LegacyFields ==
    { NoArray("undefined"), ArrayOf(Repeat(Num(210), 24)), ArrayOf(Repeat(Num(210), 23)) }

\* What JSON.parse(response.text) may return.
LegacyData ==
    { [kind |-> "null"] } \cup
    [ kind : {"object"}, hourlyTemp : LegacyFields, hourlyHumidity : LegacyFields ]

\* response.text: undefined, "", a text that is no JSON, or a JSON text.
LegacyTexts ==
    { [t |-> "undefined"], [t |-> "empty"], [t |-> "garbage"] } \cup
    { [t |-> "json", json |-> j] : j \in LegacyData }

\* What the try block throws for the response text, or NoThrow: the Error of
\* its last statement, the SyntaxError of JSON.parse, the TypeError of a
\* property read on null or undefined.
NoThrow == [isError |-> FALSE, message |-> "nothing thrown"]

LegacyThrows(v, text) ==
    IF text.t \in {"undefined", "empty"}
    THEN ErrorOf(IF v = "grounded" THEN "Invalid API Data Structure"
                 ELSE "Invalid API Response Structure")
    ELSE IF text.t = "garbage" THEN ErrorOf("SyntaxError: unexpected token in JSON")
    ELSE IF text.json.kind = "null" THEN TypeErrorValue
    ELSE IF v = "grounded"
    THEN IF text.json.hourlyTemp.kind = "array" /\ Len(text.json.hourlyTemp.elems) = 24
         THEN NoThrow
         ELSE ErrorOf("Invalid API Data Structure")
    ELSE IF text.json.hourlyTemp.kind # "array" THEN TypeErrorValue
    ELSE IF Len(text.json.hourlyTemp.elems) # 24
         THEN ErrorOf("Invalid API Response Structure")
    ELSE IF text.json.hourlyHumidity.kind # "array" THEN TypeErrorValue
    ELSE IF Len(text.json.hourlyHumidity.elems) # 24
         THEN ErrorOf("Invalid API Response Structure")
    ELSE NoThrow

\* The observation the try block returns from the parsed forecast.
LegacyObservation(v, json) ==
    [ hourlyTemp |-> json.hourlyTemp.elems,
      hourlyHumidity |-> json.hourlyHumidity.elems,
      isFallback |-> FALSE,
      error |-> << >> ]

\* The invocation is called: without API key it returns the fallback
\* observation at once, with one it calls generateContent.
LegacyStart(i) ==
    /\ version \in LegacyVersions
    /\ pc[i] = "START"
    /\ IF ~apiKey
       THEN /\ pc' = [pc EXCEPT ![i] = "DONE"]
            /\ hist' = [hist EXCEPT ![i] = @ \o <<"SYNTHESIZE", "DONE">>]
            /\ \E fallback \in LegacyFallbacks(version) :
                  result' = [result EXCEPT ![i] = [kind |-> "returned", obs |-> fallback]]
            /\ UNCHANGED <<calls, inflight>>
       ELSE /\ pc' = [pc EXCEPT ![i] = "GENERATE"]
            /\ hist' = [hist EXCEPT ![i] = Append(@, "TRY_MODEL")]
            /\ calls' = Append(calls, <<i, "model">>)
            /\ inflight' = inflight \cup { <<i, "model">> }
            /\ UNCHANGED result
    /\ UNCHANGED <<weatherKey, apiKey, version, body, caught>>
    /\ UNCHANGED <<normVars, scanVars, simVars, synthVars, timeVars>>

\* The catch block of an earlier version runs for the caught value e.
LegacyCatches(i, e) ==
    /\ pc' = [pc EXCEPT ![i] = "DONE"]
    /\ hist' = [hist EXCEPT ![i] = @ \o <<"SYNTHESIZE", "DONE">>]
    /\ inflight' = inflight \ { <<i, "model">> }
    /\ \E fallback \in LegacyFallbacks(version) :
          result' = [result EXCEPT ![i] = LegacyCatch(e, fallback)]
    /\ caught' = [caught EXCEPT ![i] = Append(@, e)]
    /\ UNCHANGED <<weatherKey, apiKey, version, calls, body>>
    /\ UNCHANGED <<normVars, scanVars, simVars, synthVars, timeVars>>

\* generateContent rejects.
LegacyGenerateRejects(i) ==
    /\ pc[i] = "GENERATE"
    /\ \E e \in ModelErrors : LegacyCatches(i, e)

\* generateContent resolves with a response whose forecast is returned.
LegacyGenerateReturns(i) ==
    /\ pc[i] = "GENERATE"
    /\ \E text \in LegacyTexts :
        /\ LegacyThrows(version, text) = NoThrow
        /\ pc' = [pc EXCEPT ![i] = "DONE"]
        /\ hist' = [hist EXCEPT ![i] = Append(@, "DONE")]
        /\ inflight' = inflight \ { <<i, "model">> }
        /\ result' = [result EXCEPT ![i] =
                         [kind |-> "returned", obs |-> LegacyObservation(version, text.json)]]
        /\ body' = [body EXCEPT ![i] = [provider |-> "model", data |-> text.json]]
    /\ UNCHANGED <<weatherKey, apiKey, version, calls, caught>>
    /\ UNCHANGED <<normVars, scanVars, simVars, synthVars, timeVars>>

\* generateContent resolves with a response the try block throws on.
LegacyGenerateThrows(i) ==
    /\ pc[i] = "GENERATE"
    /\ \E text \in LegacyTexts :
        /\ LegacyThrows(version, text) # NoThrow
        /\ LegacyCatches(i, LegacyThrows(version, text))

NormIdle ==
    /\ nImpl = "none"
    /\ nArr = NoArray("undefined")
    /\ nFill = Num(0)
    /\ nOut = << >>
    /\ nPc = "idle"

\* No call of parseWeatherGraph.
ScanIdle ==
    /\ sImpl = "none"
    /\ sKey = FALSE
    /\ sPc = "idle"
    /\ sFail = "none"
    /\ sResp = [kind |-> "pending"]
    /\ sOut = [kind |-> "pending"]

\* No call of analyzeSimulation.
SimIdle ==
    /\ aKey = FALSE
    /\ aPc = "idle"
    /\ aArgs = [kind |-> "none"]
    /\ aOut = [kind |-> "pending"]

\* No call of getAgraOfflineData from outside the provider chain.
SynthIdle ==
    /\ gIndex = 0
    /\ gRnd = << >>
    /\ gOut = [kind |-> "pending"]
    /\ gPc = "idle"

\* No call of parseTimeStr from outside the keyed adapter.
TimeIdle ==
    /\ tStr = NoTimeStr("undefined")
    /\ tOut = NaN
    /\ tPc = "idle"

\* No invocation of fetchHourlyWeather.
FetchIdle ==
    /\ weatherKey = FALSE
    /\ pc = << >>
    /\ hist = << >>
    /\ calls = << >>
    /\ inflight = {}
    /\ result = << >>
    /\ body = << >>
    /\ caught = << >>
    /\ version = "none"
    /\ apiKey = FALSE

\* One invocation of fetchHourlyWeather, with or without the credential.
Init ==
    /\ weatherKey \in BOOLEAN
    /\ pc = [i \in {1} |-> "START"]
    /\ hist = [i \in {1} |-> <<"START">>]
    /\ calls = << >>
    /\ inflight = {}
    /\ result = [i \in {1} |-> [kind |-> "pending"]]
    /\ body = [i \in {1} |-> [provider |-> "none"]]
    /\ caught = [i \in {1} |-> << >>]
    /\ version = "current"
    /\ apiKey = FALSE
    /\ NormIdle
    /\ ScanIdle
    /\ SimIdle
    /\ SynthIdle
    /\ TimeIdle

Next ==
    \/ \E i \in Invocations : Start(i)
    \/ \E i \in Invocations : FetchRejects(i)
    \/ \E i \in Invocations : FetchNotOk(i)
    \/ \E i \in Invocations : FetchOk(i)
    \/ \E i \in Invocations : JsonRejects(i)
    \/ \E i \in Invocations : KeylessJsonResolves(i)
    \/ \E i \in Invocations : KeyedJsonResolves(i)

Spec == Init /\ [][Next]_vars

\* One call of parseTimeStr.
InitTime ==
    /\ FetchIdle
    /\ NormIdle
    /\ ScanIdle
    /\ SimIdle
    /\ SynthIdle
    /\ tStr \in TimeStrings
    /\ tOut = NaN
    /\ tPc = "call"

NextTime == CallParseTimeStr

SpecTime == InitTime /\ [][NextTime]_vars

\* Two invocations of fetchHourlyWeather under way at once.
ConcurrentInvocations == {1, 2}

InitConcurrent ==
    /\ weatherKey \in BOOLEAN
    /\ pc = [i \in ConcurrentInvocations |-> "START"]
    /\ hist = [i \in ConcurrentInvocations |-> <<"START">>]
    /\ calls = << >>
    /\ inflight = {}
    /\ result = [i \in ConcurrentInvocations |-> [kind |-> "pending"]]
    /\ body = [i \in ConcurrentInvocations |-> [provider |-> "none"]]
    /\ caught = [i \in ConcurrentInvocations |-> << >>]
    /\ version = "current"
    /\ apiKey = FALSE
    /\ NormIdle
    /\ ScanIdle
    /\ SimIdle
    /\ SynthIdle
    /\ TimeIdle

\* Every interleaving of the continuations of the invocations.
SpecConcurrent == InitConcurrent /\ [][Next]_vars

\* One invocation of fetchHourlyWeather in any of its versions.
InitVersions ==
    /\ version \in {"current"} \cup LegacyVersions
    /\ weatherKey \in (IF version = "current" THEN BOOLEAN ELSE {FALSE})
    /\ apiKey \in (IF version = "current" THEN {FALSE} ELSE BOOLEAN)
    /\ pc = [i \in {1} |-> "START"]
    /\ hist = [i \in {1} |-> <<"START">>]
    /\ calls = << >>
    /\ inflight = {}
    /\ result = [i \in {1} |-> [kind |-> "pending"]]
    /\ body = [i \in {1} |-> [provider |-> "none"]]
    /\ caught = [i \in {1} |-> << >>]
    /\ NormIdle
    /\ ScanIdle
    /\ SimIdle
    /\ SynthIdle
    /\ TimeIdle

NextVersions ==
    \/ \E i \in Invocations : Start(i)
    \/ \E i \in Invocations : FetchRejects(i)
    \/ \E i \in Invocations : FetchNotOk(i)
    \/ \E i \in Invocations : FetchOk(i)
    \/ \E i \in Invocations : JsonRejects(i)
    \/ \E i \in Invocations : KeylessJsonResolves(i)
    \/ \E i \in Invocations : KeyedJsonResolves(i)
    \/ \E i \in Invocations : LegacyStart(i)
    \/ \E i \in Invocations : LegacyGenerateRejects(i)
    \/ \E i \in Invocations : LegacyGenerateReturns(i)
    \/ \E i \in Invocations : LegacyGenerateThrows(i)

SpecVersions == InitVersions /\ [][NextVersions]_vars

\* Every provider call that was issued eventually settles.
FairSpec == Spec /\ WF_vars(Next)

\* One call of normalizeArray, of either copy, on an enumerated input.
InitNormalize ==
    /\ FetchIdle
    /\ ScanIdle
    /\ SimIdle
    /\ SynthIdle
    /\ TimeIdle
    /\ nImpl \in {"isNaN", "or"}
    /\ nArr \in NormInputs
    /\ nFill \in NormFills
    /\ nOut = << >>
    /\ nPc = "call"

NextNormalize ==
    \/ CallNormalizeArray
    \/ CallNormalizeArrayOr

SpecNormalize == InitNormalize /\ [][NextNormalize]_vars

\* One call of parseWeatherGraph, of either copy, with or without API key.
InitScan ==
    /\ FetchIdle
    /\ NormIdle
    /\ SimIdle
    /\ SynthIdle
    /\ TimeIdle
    /\ sImpl \in {"isNaN", "or"}
    /\ sKey \in BOOLEAN
    /\ sPc = "START"
    /\ sFail = "none"
    /\ sResp = [kind |-> "pending"]
    /\ sOut = [kind |-> "pending"]

NextScan ==
    \/ ScanStart
    \/ FileReadRejects
    \/ FileReadResolves
    \/ GenerateRejects
    \/ GenerateResolves

SpecScan == InitScan /\ [][NextScan]_vars

\* One call of analyzeSimulation, with or without API key.
InitSim ==
    /\ FetchIdle
    /\ NormIdle
    /\ ScanIdle
    /\ SynthIdle
    /\ TimeIdle
    /\ aKey \in BOOLEAN
    /\ aPc = "START"
    /\ aArgs \in SimArgs
    /\ aOut = [kind |-> "pending"]

NextSim ==
    \/ SimStart
    \/ SimGenerateRejects
    \/ SimGenerateResolves

SpecSim == InitSim /\ [][NextSim]_vars

\* One call of getAgraOfflineData, for an index and the random draws it makes.
InitSynth ==
    /\ FetchIdle
    /\ NormIdle
    /\ ScanIdle
    /\ SimIdle
    /\ TimeIdle
    /\ gIndex \in SynthIndexes
    /\ gRnd \in RandStreams \cup BandStreams
    /\ gOut = [kind |-> "pending"]
    /\ gPc = "call"

NextSynth == CallGetAgraOfflineData

SpecSynth == InitSynth /\ [][NextSynth]_vars

-----------------------------------------------------------------------------
(* Properties of the provider chain *)

Range(seq) == { seq[k] : k \in 1..Len(seq) }

Returned(i) == result[i].kind = "returned"
Synthesized(i) == "SYNTHESIZE" \in Range(hist[i])
LiveSuccess(i) == Returned(i) /\ ~ Synthesized(i)

\* The calls invocation i issued, in order.
CallsOf(i) == SelectSeq(calls, LAMBDA c : c[1] = i)

\* x is a number within [lo, hi].
InRange(x, lo, hi) == IsNum(x) /\ lo <= x.v /\ x.v <= hi

\* C1: fetchHourlyWeather is total: whatever the credential and whatever each
\* provider call ends with, the invocation never settles with an exception, a
\* suspended invocation always has a continuation for what its call ends
\* with, and a finished invocation has returned an observation.
C1_Total ==
    \A i \in Invocations :
        /\ result[i].kind # "thrown"
        /\ pc[i] # "DONE" => ENABLED FetchStep(i)
        /\ pc[i] = "DONE" => Returned(i)

\* C1 witness: with the credential set, the keyed body was decoded, the
\* adapter threw on it, and the invocation returned an observation.
C1_Witness ==
    \E i \in Invocations :
        /\ weatherKey
        /\ pc[i] = "DONE"
        /\ Returned(i)
        /\ result[i].obs.error = << TypeErrorValue.message >>

\* C2: every observation fetchHourlyWeather returns has three arrays of
\* exactly 24 elements, sunriseHour < sunsetHour, humidity within [10, 95]
\* and cloud cover within [0, 100].
C2_WellFormed ==
    \A i \in Invocations :
        Returned(i) =>
            LET o == result[i].obs
            IN  /\ Len(o.hourlyTemp) = HOURS
                /\ Len(o.hourlyHumidity) = HOURS
                /\ Len(o.hourlyCloud) = HOURS
                /\ IsNum(o.sunriseHour) /\ IsNum(o.sunsetHour)
                /\ o.sunriseHour.v < o.sunsetHour.v
                /\ \A k \in 1..Len(o.hourlyHumidity) : InRange(o.hourlyHumidity[k], 100, 950)
                /\ \A k \in 1..Len(o.hourlyCloud) : InRange(o.hourlyCloud[k], 0, 1000)

\* C3: after a failed keyed attempt the keyless provider is attempted next:
\* SYNTHESIZE is never entered before the keyless provider was attempted.
C3_KeylessBeforeSynthesis ==
    \A i \in Invocations :
        Synthesized(i) => "TRY_KEYLESS" \in Range(hist[i])

\* C4: without the credential, a keyless call that throws gives a result
\* with isFallback = true, the offline source, and an error that is present
\* and not the empty string.
C4_ErrorNonEmpty ==
    \A i \in Invocations :
        (~ weatherKey /\ pc[i] = "DONE" /\ Synthesized(i)) =>
            /\ result[i].obs.meta.isFallback
            /\ result[i].obs.meta.source = "Agra Offline Database (Baseline)"
            /\ Len(result[i].obs.error) = 1
            /\ result[i].obs.error[1] # ""

\* The hourly arrays of a decoded body: a sequence per quantity.
BodyArrays(b) ==
    IF b.provider = "keyless"
    THEN { b.data.temperature_2m.elems, b.data.relative_humidity_2m.elems,
           b.data.cloud_cover.elems }
    ELSE { b.data.hour.elems }

\* C5: a live adapter returns an observation only from a body whose hourly
\* arrays all have exactly 24 elements; it never returns arrays shorter than
\* 24 and never slices a longer array down to 24.
C5_AdaptersReject ==
    \A i \in Invocations :
        LiveSuccess(i) =>
            /\ \A a \in BodyArrays(body[i]) : Len(a) = HOURS
            /\ Len(result[i].obs.hourlyTemp) = HOURS
            /\ Len(result[i].obs.hourlyHumidity) = HOURS
            /\ Len(result[i].obs.hourlyCloud) = HOURS

\* C6: provider attempts of one invocation are sequential and ordered: at
\* most one call is in flight, the keyed provider is called only with the
\* credential and then first, the keyless provider is never called before or
\* while a keyed call is outstanding, and after a successful attempt there is
\* no other call and no synthesis.
C6_Sequential ==
    \A i \in Invocations :
        LET mine == CallsOf(i)
        IN  /\ Cardinality({ c \in inflight : c[1] = i }) <= 1
            /\ \A k \in 1..Len(mine) : mine[k][2] = "keyed" => (weatherKey /\ k = 1)
            /\ <<i, "keyless">> \in Range(calls) => <<i, "keyed">> \notin inflight
            /\ LiveSuccess(i) =>
                  /\ Len(mine) = 1
                  /\ { c \in inflight : c[1] = i } = {}
                  /\ mine[1][2] = body[i].provider
                  /\ ~ result[i].obs.meta.isFallback

\* C6 witness: with the credential set, the keyed call was the only call and
\* its observation was returned.
C6_Witness ==
    \E i \in Invocations :
        /\ weatherKey
        /\ LiveSuccess(i)
        /\ CallsOf(i) = << <<i, "keyed">> >>
        /\ result[i].obs.meta.source = "WeatherAPI.com (Live)"

\* C7: meta.isFallback of a returned observation is true exactly when the
\* offline synthesis produced it.
C7_FallbackIffSynthesized ==
    \A i \in Invocations :
        Returned(i) => (result[i].obs.meta.isFallback <=> Synthesized(i))

\* C7 witness: a keyless observation returned live, flagged isFallback = false.
C7_Witness ==
    \E i \in Invocations :
        /\ LiveSuccess(i)
        /\ body[i].provider = "keyless"
        /\ ~ result[i].obs.meta.isFallback

\* The rank of a chain state in START, TRY_KEYED, TRY_KEYLESS, SYNTHESIZE, DONE.
Rank(st) ==
    CASE st = "START" -> 0
      [] st = "TRY_KEYED" -> 1
      [] st = "TRY_KEYLESS" -> 2
      [] st = "SYNTHESIZE" -> 3
      [] st = "DONE" -> 4

\* The chain states were entered in strictly increasing rank (no back-edge,
\* none entered twice) and no provider was called twice.
NoRevisit ==
    \A i \in Invocations :
        /\ \A k \in 1..(Len(hist[i]) - 1) : Rank(hist[i][k]) < Rank(hist[i][k + 1])
        /\ \A k, l \in 1..Len(CallsOf(i)) : CallsOf(i)[k] = CallsOf(i)[l] => k = l

\* C8: provided every provider call settles, every invocation reaches DONE;
\* the chain has no back-edge, enters no state twice and attempts no provider
\* twice.
C8_Terminates ==
    /\ <>(\A i \in Invocations : pc[i] = "DONE")
    /\ []NoRevisit

\* C8 witness: an invocation that went START, TRY_KEYED, SYNTHESIZE, DONE.
C8_Witness ==
    \E i \in Invocations :
        /\ pc[i] = "DONE"
        /\ hist[i] = <<"START", "TRY_KEYED", "SYNTHESIZE", "DONE">>

-----------------------------------------------------------------------------
(* Properties of normalizeArray *)

NormDone == nPc = "done" /\ nArr.kind = "array"

\* x coerces to a finite number.
CoercesFinite(x) == Number(x).t = "num"

\* C9: of the first 24 input elements, normalizeArray replaces by fillValue
\* exactly those that do not coerce to a finite number and keeps every one
\* that does (0 and negative values included) as that number at its index.
C9_ReplacesNonFinite ==
    NormDone =>
        \A k \in 1..Min(Len(nArr.elems), NORM_LEN) :
            nOut[k] = IF CoercesFinite(nArr.elems[k]) THEN Number(nArr.elems[k]) ELSE nFill

\* C10: for an input of length n with 0 < n < 24, positions n..23 of the
\* output all equal the output at position n - 1.
C10_PadRepeatsLast ==
    (NormDone /\ Len(nArr.elems) > 0 /\ Len(nArr.elems) < NORM_LEN) =>
        /\ Len(nOut) = NORM_LEN
        /\ \A k \in (Len(nArr.elems) + 1)..NORM_LEN : nOut[k] = nOut[Len(nArr.elems)]

\* C11: for an input that is no array (undefined, null, a number, a string, an
\* object) or is the empty array, normalizeArray returns exactly 24 copies of
\* fillValue; it has no outcome other than returning.
C11_FillsWhenNoElements ==
    (nPc = "done" /\ (nArr.kind # "array" \/ nArr.elems = << >>)) =>
        nOut = Repeat(nFill, NORM_LEN)

\* normalizeArray(undefined, 5) has returned; so has normalizeArray([], 5).
C11_Witness ==
    /\ nPc = "done"
    /\ nFill = Num(5)
    /\ nArr = NoArray("undefined")
    /\ nOut = Repeat(Num(5), NORM_LEN)

\* The element map of the copy that ran.
CoerceOf(impl, n, fillValue) ==
    IF impl = "or" THEN CoerceOr(n, fillValue) ELSE CoerceIsNaN(n, fillValue)

\* C12: for an input array longer than 24, normalizeArray returns exactly 24
\* elements, the k-th being the element map applied to the k-th input element
\* (so elements at index 24 and beyond have no influence), and the input
\* array is left as it was.
C12_KeepsFirst24 ==
    [][(nPc = "call" /\ nArr.kind = "array" /\ Len(nArr.elems) > NORM_LEN) =>
          /\ nArr' = nArr
          /\ Len(nOut') = NORM_LEN
          /\ \A k \in 1..NORM_LEN : nOut'[k] = CoerceOf(nImpl, nArr.elems[k], nFill)]_vars

\* normalizeArray([1..30], 0) has returned [1..24].
C12_Witness ==
    /\ nPc = "done"
    /\ nArr = ArrayOf(OneToThirty)
    /\ nFill = Num(0)
    /\ nOut = [k \in 1..NORM_LEN |-> Num(k)]

\* The failures the call answers with the fallback profile.
ScanFailures == { "no_key", "file_error", "model_rejected", "empty_text", "bad_json" }

\* C13: parseWeatherGraph never settles with an exception, and when the API
\* key is missing, the file read fails, the model call rejects, the response
\* text is empty or the response text is no JSON, it returns exactly the
\* fallback profile: 24 times 25, 24 times 50, 24 times 0.
C13_FallbackProfile ==
    /\ sOut.kind # "thrown"
    /\ (sPc = "DONE" /\ sFail \in ScanFailures) =>
           sOut =
               [ kind |-> "returned",
                 value |-> [ hourlyTemp |-> [k \in 1..24 |-> Num(25)],
                             hourlyHumidity |-> [k \in 1..24 |-> Num(50)],
                             hourlyCloud |-> [k \in 1..24 |-> Num(0)] ] ]

\* A call has returned the fallback profile for a response text that is no JSON.
C13_Witness ==
    /\ sPc = "DONE"
    /\ sFail = "bad_json"
    /\ sOut.kind = "returned"
    /\ sOut.value.hourlyTemp[1] = Num(25)

\* Exactly 24 elements, each a finite number.
FiniteProfileArray(a) == Len(a) = 24 /\ \A k \in 1..Len(a) : a[k].t = "num"

\* C14: whenever parseWeatherGraph returns after a response text was parsed,
\* hourlyTemp, hourlyHumidity and hourlyCloud each have exactly 24 elements
\* and every element is a finite number.
C14_FiniteOutputs ==
    (sPc = "DONE" /\ sResp.kind = "response" /\ sResp.text.t = "json") =>
        /\ sOut.kind = "returned"
        /\ FiniteProfileArray(sOut.value.hourlyTemp)
        /\ FiniteProfileArray(sOut.value.hourlyHumidity)
        /\ FiniteProfileArray(sOut.value.hourlyCloud)

\* C15: for every climate profile the 24 synthesized temperatures have their
\* minimum at hour 5, equal to minT, and their maximum at hour 15, equal to
\* maxT.
C15_TempExtremes ==
    gPc = "done" =>
        LET temp == gOut.hourlyTemp
        IN  /\ temp[5 + 1] = Num(ProfileOf(gIndex).minT)
            /\ temp[15 + 1] = Num(ProfileOf(gIndex).maxT)
            /\ \A h \in 1..HOURS : temp[5 + 1].v <= temp[h].v /\ temp[h].v <= temp[15 + 1].v

\* Sum of the cloud values of hours lo..hi.
RECURSIVE CloudSum(_, _, _)
CloudSum(cloud, lo, hi) ==
    IF lo > hi THEN 0 ELSE cloud[lo + 1].v + CloudSum(cloud, lo + 1, hi)

\* C16: for an AFTERNOON_BUILDUP profile and every random draw, the mean
\* cloud cover over hours 13..17 is strictly greater than the mean over
\* hours 0..4 (five hours each, so the sums compare as the means do), and
\* every cloud value lies in [0, 100].
C16_AfternoonBuildup ==
    (gPc = "done" /\ ProfileOf(gIndex).cloudProfile = "AFTERNOON_BUILDUP") =>
        /\ CloudSum(gOut.hourlyCloud, 13, 17) > CloudSum(gOut.hourlyCloud, 0, 4)
        /\ \A h \in 1..HOURS : InRange(gOut.hourlyCloud[h], 0, 1000)

\* The AFTERNOON_BUILDUP profile synthesized with the highest noise at night
\* and no noise in the afternoon.
C16_Witness ==
    /\ gPc = "done"
    /\ ProfileOf(gIndex).cloudProfile = "AFTERNOON_BUILDUP"
    /\ \A h \in 0..4 : gRnd[h] = 999
    /\ \A h \in 13..17 : gRnd[h] = 0
    /\ CloudSum(gOut.hourlyCloud, 13, 17) = 1400
    /\ CloudSum(gOut.hourlyCloud, 0, 4) = 500

\* C17: analyzeSimulation never settles with an exception; a call that has
\* finished has returned an HTML fragment, whatever the API key, the model
\* call and the arrays and numeric fields of result and params were.
C17_NeverThrows ==
    /\ aOut.kind # "thrown"
    /\ aPc = "DONE" => aOut.kind = "returned"

\* C18: every observation fetchHourlyWeather returns with meta.isFallback =
\* true is the synthesis of the day-offset-0 profile, whatever the random
\* draws: three arrays of exactly 24 finite numbers, the temperatures those of
\* the profile's curve and within [minT, maxT], humidity within [10, 95],
\* cloud within [0, 5], sunriseHour and sunsetHour the profile's sunR and
\* sunS, and sunriseHour < sunsetHour.
C18_FallbackWellFormed ==
    \A i \in Invocations :
        (Returned(i) /\ result[i].obs.meta.isFallback) =>
            LET o == result[i].obs
                p == generateAgraForecast[1]
            IN  /\ p.dayOffset = 0
                /\ p.cloudProfile = "CLEAR"
                /\ Len(o.hourlyTemp) = 24
                /\ Len(o.hourlyHumidity) = 24
                /\ Len(o.hourlyCloud) = 24
                /\ \A k \in 1..24 :
                      /\ InRange(o.hourlyTemp[k], p.minT, p.maxT)
                      /\ o.hourlyTemp[k] = Num(SynthTemp(p, k - 1))
                      /\ InRange(o.hourlyHumidity[k], 100, 950)
                      /\ InRange(o.hourlyCloud[k], 0, 50)
                /\ o.sunriseHour = Num(p.sunR)
                /\ o.sunsetHour = Num(p.sunS)
                /\ o.sunriseHour.v < o.sunsetHour.v

\* A synthesized observation was returned whose draws were all the highest:
\* every cloud value is 5.0, the temperature of hour 5 is minT.
C18_Witness ==
    \E i \in Invocations :
        /\ Returned(i)
        /\ result[i].obs.meta.isFallback
        /\ \A k \in 1..24 : result[i].obs.hourlyCloud[k] = Num(50)
        /\ result[i].obs.hourlyTemp[6] = Num(124)

\* The value the catch block of invocation i caught last.
LastCaught(i) == caught[i][Len(caught[i])]

\* C19: the error field of a returned observation is present exactly when
\* the observation was synthesized after a failed attempt, and then it is the
\* message of the Error caught last; it is absent on a live success and
\* absent when synthesis was reached without a failed attempt.
C19_ErrorField ==
    \A i \in Invocations :
        Returned(i) =>
            /\ (result[i].obs.error # << >>) <=> (Synthesized(i) /\ caught[i] # << >>)
            /\ (Synthesized(i) /\ caught[i] # << >> /\ LastCaught(i).isError) =>
                   result[i].obs.error = << LastCaught(i).message >>

\* What invocation i returned follows from the credential and from what its
\* own provider call ended with: the adapter's observation of the body it
\* decoded, or the synthesis with the value it caught.
OwnOutcome(i) ==
    IF body[i].provider # "none"
    THEN /\ body[i].provider = (IF weatherKey THEN "keyed" ELSE "keyless")
         /\ result[i] =
               [ kind |-> "returned",
                 obs |-> IF weatherKey THEN WeatherAPIObservation(body[i].data)
                         ELSE OpenMeteoObservation(body[i].data) ]
    ELSE /\ caught[i] # << >>
         /\ result[i].kind = "returned"
         /\ result[i].obs.error =
               << IF LastCaught(i).isError THEN LastCaught(i).message ELSE "Fetch Failed" >>
         /\ \E rnd \in Draws : [result[i].obs EXCEPT !.error = << >>] = getAgraOfflineData(0, rnd)

\* A step of invocation i leaves everything of the other invocations as it was.
OthersUntouched(i) ==
    \A j \in Invocations \ {i} :
        /\ pc'[j] = pc[j]
        /\ hist'[j] = hist[j]
        /\ result'[j] = result[j]
        /\ body'[j] = body[j]
        /\ caught'[j] = caught[j]

ClaimedMinutes(timeStr) ==
    60 * ((timeStr.hh % 12) + (IF timeStr.period = "PM" THEN 12 ELSE 0)) + timeStr.mm

\* C21: for every "hh:mm AM" or "hh:mm PM" with hh in 1..12 and mm in 0..59,
\* parseTimeStr returns (hh mod 12) + (12 if PM else 0) + mm/60 rounded to two
\* decimals (in hundredths: the integer nearest to minutes * 100 / 60), which
\* lies in [0, 24); 12:mm AM is within hour 0 and 12:mm PM within hour 12.
C21_TwelveHourClock ==
    (/\ tPc = "done"
     /\ tStr.kind = "hhmm"
     /\ tStr.period \in {"AM", "PM"}
     /\ tStr.hh \in 1..12
     /\ tStr.mm \in 0..59) =>
        /\ tOut = Num((200 * ClaimedMinutes(tStr) + 60) \div 120)
        /\ InRange(tOut, 0, 2399)
        /\ tStr.hh = 12 =>
              (tOut.v \div 100) = (IF tStr.period = "PM" THEN 12 ELSE 0)

\* parseTimeStr("12:30 AM") has returned 0.5.
C21_Witness ==
    /\ tPc = "done"
    /\ tStr = TimeStr(12, 30, "AM")
    /\ tOut = Num(50)

====
